---- MODULE Spec2Model ----
(***************************************************************************)
(* Cart / delivery / address service of src/main.py.                       *)
(*                                                                         *)
(* The three module-level dicts (carts, user_addresses, deliveries) are    *)
(* functions whose DOMAIN is the dict's key set.  A dict value that is a   *)
(* mutable Cart object is a reference into `heap`, because the handlers    *)
(* mutate the object they fetched (cart.items.append, cart.total += ...)   *)
(* and checkout rebinds the key to a new object.                           *)
(*                                                                         *)
(* Spec     : requests handled one at a time (each handler is one action). *)
(* SpecConc : the cart handlers run in worker threads and interleave at    *)
(*            the granularity of their statements.                         *)
(*                                                                         *)
(* Cyrillic literals of the source are transliterated: "ukraina" stands    *)
(* for the country literal of line 185 and "skhid" for the region literal  *)
(* of line 216.  Prices are integers.                                      *)
(***************************************************************************)
EXTENDS Integers, Sequences, FiniteSets, TLC

VARIABLES
    carts,           \* dict user_id -> Cart object (a reference into heap)
    user_addresses,  \* dict user_id -> list of DeliveryAddress
    deliveries,      \* dict order_id -> DeliveryInfo
    heap,            \* the live Cart objects
    resp,            \* the response sent last
    pc,              \* SpecConc: where each worker thread stands in its handler
    loc,             \* SpecConc: the handler's local variables
    raced,           \* history: users two of whose requests were in flight at once
    started          \* history: how many requests the worker threads were handed

vars == <<carts, user_addresses, deliveries, heap, resp, pc, loc, raced, started>>

stores == <<carts, user_addresses, deliveries, heap>>

threads == <<pc, loc, raced, started>>

(***************************************************************************)
(* Bounds of the model.  They cap how far the stores grow; the handlers    *)
(* themselves have no such limit, so the caps sit in the next-state        *)
(* relations, not in the handlers.                                         *)
(***************************************************************************)
\* Spec: items in all stored carts, addresses in all address lists and
\* delivery records, taken together
MaxSize == 2

\* SpecItems: items in all stored carts
MaxItems == 3

\* SpecConc: requests handed to the worker threads
MaxRequests == 3

\* Cart objects constructed for one user that are alive at once
MaxCartsPerUser == 2

(***************************************************************************)
(* Input domains.                                                          *)
(***************************************************************************)
Users == {"u1", "u2"}

Threads == {"t1", "t2"}

\* object identities: a Cart is named after the user it was constructed for
\* and a serial number
Refs == Users \X (1..MaxCartsPerUser)

NoRef == <<"none", 0>>

\* marks an optional id the client left out of the request body
NoId == "absent"

ClientIds == {"a", "b1"}

\* more identifiers than the bounded stores can hold at once
PoolSize == MaxSize + MaxItems + MaxRequests + 1

\* request bodies of POST /cart/{user_id}/items with a client-supplied id:
\* both carry the same one
ProductInputs ==
    { [id |-> "a",  name |-> "pen",  price |-> 2,  quantity |-> 1],
      [id |-> "a",  name |-> "ink",  price |-> 3,  quantity |-> 2] }

\* a request body without an id, and with a negative price
ProductInputsNoId ==
    { [id |-> NoId, name |-> "cup",  price |-> -1, quantity |-> 3] }

\* request bodies carrying a DeliveryAddress; street, city and postal_code
\* are never read by the code and travel together as `street`
AddressInputs ==
    { [id |-> "h",  street |-> "s1", country |-> "Ukraina"],
      [id |-> NoId, street |-> "s2", country |-> "Polska"] }

AvailabilityIdInputs == {"a", "b1"}

RegionInputs == {"Skhid", "Zakhid"}

(***************************************************************************)
(* Library behaviour the handlers rely on.                                 *)
(***************************************************************************)
\* str.lower() on the strings of the input domains
Lower(s) ==
    CASE s = "Ukraina" -> "ukraina"
      [] s = "Polska"  -> "polska"
      [] s = "Skhid"   -> "skhid"
      [] s = "Zakhid"  -> "zakhid"
      [] OTHER         -> s

\* str.endswith("1") on the ids of the input domains
EndsWithOne(s) == s \in {"b1", "p-1"}

\* the bug of rebinding the dict instead of assigning a key
PutClobbers(d, k, v) == (k :> v)

\* dict[k] = v
Put(d, k, v) == (k :> v) @@ d

RECURSIVE SumCost(_)
\* sum(item.quantity * item.price for item in items)
SumCost(items) ==
    IF items = <<>> THEN 0
    ELSE Head(items).quantity * Head(items).price + SumCost(Tail(items))

RECURSIVE SetSum(_, _)
SetSum(S, f) ==
    IF S = {} THEN 0
    ELSE LET x == CHOOSE y \in S : TRUE IN f[x] + SetSum(S \ {x}, f)

\* every identifier currently held by some store
UsedIds ==
    DOMAIN deliveries
    \cup {deliveries[o].delivery_address.id : o \in DOMAIN deliveries}
    \cup UNION {{heap[r].items[i].id : i \in 1..Len(heap[r].items)} : r \in DOMAIN heap}
    \cup UNION {{user_addresses[u][i].id : i \in 1..Len(user_addresses[u])}
                : u \in DOMAIN user_addresses}

\* the bug of an identifier source that repeats itself
Uuid4Repeats(prefix, used) == prefix \o "1"

\* str(uuid.uuid4()): an identifier nobody holds.  Identifiers are opaque, so
\* each call site names its identifiers with its own prefix and takes the
\* first name not in use; identifiers of different call sites never meet.
Uuid4(prefix, used) ==
    prefix \o ToString(CHOOSE i \in 1..PoolSize :
                          /\ (prefix \o ToString(i)) \notin used
                          /\ \A j \in 1..(i - 1) : (prefix \o ToString(j)) \in used)

\* pydantic fills an absent id with default_factory
WithId(body, prefix, used) ==
    IF body.id = NoId THEN [body EXCEPT !.id = Uuid4(prefix, used)] ELSE body

\* Cart(user_id=user_id)
NewCart(u) == [user_id |-> u, items |-> <<>>, total |-> 0]

\* the objects some dict entry or some running handler refers to
Live(c, l) == {c[u] : u \in DOMAIN c} \cup {l[t].cart : t \in DOMAIN l}

\* a new Cart object for user u may take any identity no live object has
CanAlloc(u, live) == \E k \in 1..MaxCartsPerUser : <<u, k>> \notin live

NewRef(u, live) ==
    <<u, CHOOSE k \in 1..MaxCartsPerUser :
            /\ <<u, k>> \notin live
            /\ \A j \in 1..(k - 1) : <<u, j>> \in live>>

\* objects nothing refers to any more are freed
Collect(h, c, l) == [r \in (DOMAIN h \cap Live(c, l)) |-> h[r]]

\* the bug of a loop that looks at the first item only
FindProductFirstOnly(items, pid) ==
    IF Len(items) > 0 /\ items[1].id = pid THEN 1 ELSE 0

\* the bug of a loop without the break: the last match wins
FindProductLast(items, pid) ==
    IF \E i \in 1..Len(items) : items[i].id = pid
    THEN CHOOSE i \in 1..Len(items) :
            /\ items[i].id = pid
            /\ \A j \in (i + 1)..Len(items) : items[j].id # pid
    ELSE 0

\* for item in items: if item.id == product_id: ...; break
\* the index of the first item with that id, 0 when there is none
FindProduct(items, pid) ==
    IF \E i \in 1..Len(items) : items[i].id = pid
    THEN CHOOSE i \in 1..Len(items) :
            /\ items[i].id = pid
            /\ \A j \in 1..(i - 1) : items[j].id # pid
    ELSE 0

\* list.remove(x): drops the first element equal to x
ListRemove(s, x) ==
    LET k == CHOOSE i \in 1..Len(s) : s[i] = x /\ \A j \in 1..(i - 1) : s[j] # x
    IN  [i \in 1..(Len(s) - 1) |-> IF i < k THEN s[i] ELSE s[i + 1]]

\* cart.items.append(product); cart.total += product.price * product.quantity
CartAppend(c, p) ==
    [c EXCEPT !.items = Append(@, p), !.total = @ + p.price * p.quantity]

\* the bug of decrementing by the unit price
CartRemoveUnitPrice(c, p) ==
    [c EXCEPT !.items = ListRemove(@, p), !.total = @ - p.price]

\* cart.items.remove(p); cart.total -= p.price * p.quantity
CartRemove(c, p) ==
    [c EXCEPT !.items = ListRemove(@, p), !.total = @ - p.price * p.quantity]

\* the Cart object stored under user u
CartOf(u) == heap[carts[u]]

\* the Cart Store as the client sees it: user_id -> Cart value
CartStore == [u \in DOMAIN carts |-> heap[carts[u]]]

TotalItems == SetSum(DOMAIN carts, [u \in DOMAIN carts |-> Len(heap[carts[u]].items)])

TotalAddresses ==
    SetSum(DOMAIN user_addresses, [u \in DOMAIN user_addresses |-> Len(user_addresses[u])])

Size == TotalItems + TotalAddresses + Cardinality(DOMAIN deliveries)

\* the locals of a thread that runs no handler
Idle == [op |-> "idle", user |-> "none", cart |-> NoRef, arg |-> [id |-> NoId], tmp |-> 0]

AllIdle == \A t \in Threads : pc[t] = "idle"

\* the last response: the handler that answered, its HTTP status and its
\* JSON body (a list travels in the field `list`)
Reply(op, status, body) == [op |-> op, status |-> status, body |-> body]

(***************************************************************************)
(* Initial state: the three dicts are empty, no request has been served.   *)
(***************************************************************************)
Init ==
    /\ carts = <<>>
    /\ user_addresses = <<>>
    /\ deliveries = <<>>
    /\ heap = <<>>
    /\ resp = Reply("none", 0, [detail |-> "none"])
    /\ pc = [t \in Threads |-> "idle"]
    /\ loc = [t \in Threads |-> Idle]
    /\ raced = {}
    /\ started = 0

(***************************************************************************)
(* Handlers, one request at a time.                                        *)
(***************************************************************************)
\* GET /cart/{user_id}
GetCart(u) ==
    /\ AllIdle
    /\ IF u \in DOMAIN carts
       THEN /\ resp' = Reply("get_cart", 200, CartOf(u))
            /\ UNCHANGED stores
       ELSE /\ CanAlloc(u, Live(carts, loc))
            /\ LET r == NewRef(u, Live(carts, loc)) IN
                 /\ heap' = Put(heap, r, NewCart(u))
                 /\ carts' = Put(carts, u, r)
                 /\ resp' = Reply("get_cart", 200, NewCart(u))
            /\ UNCHANGED <<user_addresses, deliveries>>
    /\ UNCHANGED threads

\* POST /cart/{user_id}/items
AddProduct(u, body) ==
    /\ AllIdle
    /\ LET product == WithId(body, "p-", UsedIds)
           fresh   == u \notin DOMAIN carts
       IN  /\ fresh => CanAlloc(u, Live(carts, loc))
           /\ LET r  == IF fresh THEN NewRef(u, Live(carts, loc)) ELSE carts[u]
                  c0 == IF fresh THEN NewCart(u) ELSE heap[r]
                  c1 == CartAppend(c0, product)
              IN  /\ heap' = Put(heap, r, c1)
                  /\ carts' = Put(carts, u, r)
                  /\ resp' = Reply("add_product", 200, c1)
    /\ UNCHANGED <<user_addresses, deliveries, threads>>

\* DELETE /cart/{user_id}/items/{product_id}
RemoveProduct(u, pid) ==
    /\ AllIdle
    /\ IF u \notin DOMAIN carts
       THEN /\ resp' = Reply("remove_product", 404, [detail |-> "cart not found"])
            /\ UNCHANGED stores
       ELSE LET k == FindProduct(CartOf(u).items, pid) IN
            IF k = 0
            THEN /\ resp' = Reply("remove_product", 404, [detail |-> "product not found"])
                 /\ UNCHANGED stores
            ELSE LET c1 == CartRemove(CartOf(u), CartOf(u).items[k]) IN
                 /\ heap' = Put(heap, carts[u], c1)
                 /\ resp' = Reply("remove_product", 200, c1)
                 /\ UNCHANGED <<carts, user_addresses, deliveries>>
    /\ UNCHANGED threads

\* base_cost = 5.0
BaseCost == 5

\* the bug of leaving out the base cost
DeliveryCostNoBase(items) == SumCost(items)

\* base_cost + sum(item.quantity * item.price for item in cart.items)
DeliveryCost(items) == BaseCost + SumCost(items)

\* the bug of testing only for a missing cart
NothingToCheckOutMissingOnly(u) == u \notin DOMAIN carts

\* not cart or len(cart.items) == 0
NothingToCheckOut(u) == u \notin DOMAIN carts \/ Len(CartOf(u).items) = 0

\* POST /cart/{user_id}/checkout
Checkout(u, body) ==
    /\ AllIdle
    /\ IF NothingToCheckOut(u)
       THEN /\ resp' = Reply("checkout", 400, [detail |-> "cart is empty"])
            /\ UNCHANGED stores
       ELSE /\ LET address  == WithId(body, "d-", UsedIds)
                   cost     == DeliveryCost(CartOf(u).items)
                   order_id == Uuid4("o-", UsedIds)
                   info     == [order_id |-> order_id, user_id |-> u,
                                delivery_address |-> address,
                                delivery_cost |-> cost, status |-> "Processing"]
                   \* the old Cart dies with the rebinding unless a running
                   \* handler still holds it
                   after    == Live([v \in DOMAIN carts \ {u} |-> carts[v]], loc)
                   r        == NewRef(u, after)
               IN  /\ CanAlloc(u, after)
                   /\ deliveries' = Put(deliveries, order_id, info)
                   /\ carts' = Put(carts, u, r)
                   /\ heap' = Collect(Put(heap, r, NewCart(u)), carts', loc)
                   /\ resp' = Reply("checkout", 200, info)
            /\ UNCHANGED user_addresses
    /\ UNCHANGED threads

\* POST /delivery/calculate
CalculateDeliveryCost(body) ==
    /\ AllIdle
    /\ LET address == WithId(body, "d-", UsedIds) IN
         resp' = Reply("calculate", 200,
                       [cost |-> IF Lower(address.country) = "ukraina" THEN 5 ELSE 15])
    /\ UNCHANGED <<stores, threads>>

\* GET /delivery/info/{order_id}
GetDeliveryInfo(o) ==
    /\ AllIdle
    /\ IF o \notin DOMAIN deliveries
       THEN resp' = Reply("delivery_info", 404, [detail |-> "delivery not found"])
       ELSE resp' = Reply("delivery_info", 200, deliveries[o])
    /\ UNCHANGED <<stores, threads>>

\* POST /delivery/availability
CheckDeliveryAvailability(region, pid) ==
    /\ AllIdle
    /\ IF Lower(region) = "skhid" /\ EndsWithOne(pid)
       THEN resp' = Reply("availability", 200, [available |-> FALSE])
       ELSE resp' = Reply("availability", 200, [available |-> TRUE])
    /\ UNCHANGED <<stores, threads>>

\* the bug of dict.setdefault in place of dict.get
GetUserAddressesSetDefault(u) ==
    /\ AllIdle
    /\ resp' = Reply("get_addresses", 200,
                     [list |-> IF u \in DOMAIN user_addresses THEN user_addresses[u]
                               ELSE <<>>])
    /\ user_addresses' = IF u \in DOMAIN user_addresses THEN user_addresses
                         ELSE Put(user_addresses, u, <<>>)
    /\ UNCHANGED <<carts, deliveries, heap, threads>>

\* GET /user/{user_id}/addresses
GetUserAddresses(u) ==
    /\ AllIdle
    /\ resp' = Reply("get_addresses", 200,
                     [list |-> IF u \in DOMAIN user_addresses THEN user_addresses[u]
                               ELSE <<>>])
    /\ UNCHANGED <<stores, threads>>

\* the bug of inserting at the front
AppendAddressInFront(addresses, address) == <<address>> \o addresses

\* addresses.append(address)
AppendAddress(addresses, address) == Append(addresses, address)

\* POST /user/{user_id}/addresses
AddDeliveryAddress(u, body) ==
    /\ AllIdle
    /\ LET address   == WithId(body, "d-", UsedIds)
           addresses == IF u \in DOMAIN user_addresses THEN user_addresses[u] ELSE <<>>
           updated   == AppendAddress(addresses, address)
       IN  /\ user_addresses' = Put(user_addresses, u, updated)
           /\ resp' = Reply("add_address", 200, [list |-> updated])
    /\ UNCHANGED <<carts, deliveries, heap, threads>>

\* ids a client can name: the ones it made up and the ones it was sent
ProductIdInputs ==
    ClientIds \cup UNION {{heap[r].items[i].id : i \in 1..Len(heap[r].items)}
                           : r \in DOMAIN heap}

OrderIdInputs == DOMAIN deliveries \cup {"nope"}

Next ==
    \/ \E u \in Users : GetCart(u)
    \/ Size < MaxSize /\ \E u \in Users, p \in ProductInputs : AddProduct(u, p)
    \/ \E u \in Users, pid \in ProductIdInputs : RemoveProduct(u, pid)
    \/ \E u \in Users, a \in AddressInputs : Checkout(u, a)
    \/ \E a \in AddressInputs : CalculateDeliveryCost(a)
    \/ \E o \in OrderIdInputs : GetDeliveryInfo(o)
    \/ \E g \in RegionInputs, pid \in AvailabilityIdInputs : CheckDeliveryAvailability(g, pid)
    \/ \E u \in Users : GetUserAddresses(u)
    \/ Size < MaxSize /\ \E u \in Users, a \in AddressInputs : AddDeliveryAddress(u, a)

Spec == Init /\ [][Next]_vars

\* the handlers that add and remove cart items, with room for longer carts
NextItems ==
    \/ \E u \in Users : GetCart(u)
    \/ /\ TotalItems < MaxItems
       /\ \E u \in Users, p \in ProductInputs \cup ProductInputsNoId : AddProduct(u, p)
    \/ \E u \in Users, pid \in ProductIdInputs : RemoveProduct(u, pid)

SpecItems == Init /\ [][NextItems]_vars

(***************************************************************************)
(* The cart handlers in worker threads.  They are plain `def` functions,   *)
(* which the framework runs in a thread pool, so two of them interleave    *)
(* between any two accesses to the shared dict and the shared Cart object. *)
(* A step is one such access together with the purely local work around    *)
(* it; `cart.total += x` is a read and a later write.                       *)
(***************************************************************************)
\* carts.get(user_id), None being NoRef
CartsGetAny(u) ==
    IF u \in DOMAIN carts THEN carts[u]
    ELSE IF DOMAIN carts # {} THEN carts[CHOOSE v \in DOMAIN carts : TRUE]
    ELSE NoRef

CartsGet(u) == IF u \in DOMAIN carts THEN carts[u] ELSE NoRef

\* request bodies whose ids the client chose
ConcAddressInputs == {a \in AddressInputs : a.id # NoId}

\* the ids of those products
ConcProductIds == {p.id : p \in ProductInputs}

InFlight(op) == Cardinality({t \in Threads : loc[t].op = op})

\* a worker thread picks the request up; the body is already parsed
Start(t, op, u, arg, label) ==
    /\ pc[t] = "idle"
    /\ pc' = [pc EXCEPT ![t] = label]
    /\ loc' = [loc EXCEPT ![t] = [op |-> op, user |-> u, cart |-> NoRef,
                                  arg |-> arg, tmp |-> 0]]
    /\ raced' = IF \E o \in Threads \ {t} : loc[o].user = u
                THEN raced \cup {u} ELSE raced
    /\ started' = started + 1
    /\ UNCHANGED <<stores, resp>>

\* the handler returns or raises: the response goes out, the locals die
Finish(t, reply) ==
    /\ pc' = [pc EXCEPT ![t] = "idle"]
    /\ loc' = [loc EXCEPT ![t] = Idle]
    /\ resp' = reply
    /\ heap' = Collect(heap, carts, loc')
    /\ UNCHANGED <<carts, user_addresses, deliveries, raced, started>>

\* the handler moves on to its next statement
Goto(t, label, cart, arg, tmp) ==
    /\ pc' = [pc EXCEPT ![t] = label]
    /\ loc' = [loc EXCEPT ![t] = [@ EXCEPT !.cart = cart, !.arg = arg, !.tmp = tmp]]
    /\ UNCHANGED <<resp, raced, started>>

Same(t, label) == Goto(t, label, loc[t].cart, loc[t].arg, loc[t].tmp)

\* ---- add_product_to_cart ----
ConcAddStart(t, u, body) == Start(t, "add", u, body, "add_get")

\* cart = carts.get(user_id); if not cart:
ConcAddGet(t) ==
    /\ pc[t] = "add_get"
    /\ LET cart == CartsGet(loc[t].user) IN
         Goto(t, IF cart = NoRef THEN "add_new" ELSE "add_append",
              cart, loc[t].arg, loc[t].tmp)
    /\ UNCHANGED stores

\* cart = Cart(user_id=user_id); carts[user_id] = cart
ConcAddNew(t) ==
    /\ pc[t] = "add_new"
    /\ CanAlloc(loc[t].user, Live(carts, loc))
    /\ LET u == loc[t].user
           r == NewRef(u, Live(carts, loc))
       IN  /\ Goto(t, "add_append", r, loc[t].arg, loc[t].tmp)
           /\ carts' = Put(carts, u, r)
           /\ heap' = Collect(Put(heap, r, NewCart(u)), carts', loc')
    /\ UNCHANGED <<user_addresses, deliveries>>

\* cart.items.append(product)
ConcAddAppend(t) ==
    /\ pc[t] = "add_append"
    /\ heap' = [heap EXCEPT ![loc[t].cart].items = Append(@, loc[t].arg)]
    /\ Same(t, "add_read")
    /\ UNCHANGED <<carts, user_addresses, deliveries>>

\* cart.total += ... : the read
ConcAddReadTotal(t) ==
    /\ pc[t] = "add_read"
    /\ Goto(t, "add_write", loc[t].cart, loc[t].arg, heap[loc[t].cart].total)
    /\ UNCHANGED stores

\* cart.total += product.price * product.quantity : the write
ConcAddWriteTotal(t) ==
    /\ pc[t] = "add_write"
    /\ heap' = [heap EXCEPT ![loc[t].cart].total =
                                loc[t].tmp + loc[t].arg.price * loc[t].arg.quantity]
    /\ Same(t, "add_return")
    /\ UNCHANGED <<carts, user_addresses, deliveries>>

\* return cart
ConcAddReturn(t) ==
    /\ pc[t] = "add_return"
    /\ Finish(t, Reply("add_product", 200, heap[loc[t].cart]))

\* ---- remove_product_from_cart ----
ConcRemoveStart(t, u, pid) == Start(t, "remove", u, [id |-> pid], "rm_get")

\* cart = carts.get(user_id); if not cart: raise 404
ConcRemoveGet(t) ==
    /\ pc[t] = "rm_get"
    /\ LET cart == CartsGet(loc[t].user) IN
         IF cart = NoRef
         THEN Finish(t, Reply("remove_product", 404, [detail |-> "cart not found"]))
         ELSE /\ Goto(t, "rm_scan", cart, loc[t].arg, loc[t].tmp)
              /\ UNCHANGED stores

\* the loop over cart.items; if not product_to_remove: raise 404
ConcRemoveScan(t) ==
    /\ pc[t] = "rm_scan"
    /\ LET items == heap[loc[t].cart].items
           k     == FindProduct(items, loc[t].arg.id)
       IN  IF k = 0
           THEN Finish(t, Reply("remove_product", 404, [detail |-> "product not found"]))
           ELSE /\ Goto(t, "rm_remove", loc[t].cart, items[k], loc[t].tmp)
                /\ UNCHANGED stores

\* cart.items.remove(product_to_remove); a ValueError when another thread
\* took the item away is answered with 500
ConcRemoveRemove(t) ==
    /\ pc[t] = "rm_remove"
    /\ LET items == heap[loc[t].cart].items IN
         IF \E i \in 1..Len(items) : items[i] = loc[t].arg
         THEN /\ heap' = [heap EXCEPT ![loc[t].cart].items = ListRemove(@, loc[t].arg)]
              /\ Same(t, "rm_read")
              /\ UNCHANGED <<carts, user_addresses, deliveries>>
         ELSE Finish(t, Reply("remove_product", 500, [detail |-> "internal server error"]))

\* cart.total -= ... : the read
ConcRemoveReadTotal(t) ==
    /\ pc[t] = "rm_read"
    /\ Goto(t, "rm_write", loc[t].cart, loc[t].arg, heap[loc[t].cart].total)
    /\ UNCHANGED stores

\* cart.total -= product_to_remove.price * product_to_remove.quantity : the write
ConcRemoveWriteTotal(t) ==
    /\ pc[t] = "rm_write"
    /\ heap' = [heap EXCEPT ![loc[t].cart].total =
                                loc[t].tmp - loc[t].arg.price * loc[t].arg.quantity]
    /\ Same(t, "rm_return")
    /\ UNCHANGED <<carts, user_addresses, deliveries>>

\* return cart
ConcRemoveReturn(t) ==
    /\ pc[t] = "rm_return"
    /\ Finish(t, Reply("remove_product", 200, heap[loc[t].cart]))

\* ---- checkout ----
ConcCheckoutStart(t, u, body) == Start(t, "checkout", u, body, "co_get")

\* cart = carts.get(user_id); if not cart ...: raise 400
ConcCheckoutGet(t) ==
    /\ pc[t] = "co_get"
    /\ LET cart == CartsGet(loc[t].user) IN
         IF cart = NoRef
         THEN Finish(t, Reply("checkout", 400, [detail |-> "cart is empty"]))
         ELSE /\ Goto(t, "co_len", cart, loc[t].arg, loc[t].tmp)
              /\ UNCHANGED stores

\* ... or len(cart.items) == 0: raise 400
ConcCheckoutLen(t) ==
    /\ pc[t] = "co_len"
    /\ IF Len(heap[loc[t].cart].items) = 0
       THEN Finish(t, Reply("checkout", 400, [detail |-> "cart is empty"]))
       ELSE /\ Same(t, "co_cost")
            /\ UNCHANGED stores

\* delivery_cost = base_cost + sum(... for item in cart.items)
ConcCheckoutCost(t) ==
    /\ pc[t] = "co_cost"
    /\ Goto(t, "co_store", loc[t].cart, loc[t].arg, DeliveryCost(heap[loc[t].cart].items))
    /\ UNCHANGED stores

\* order_id = str(uuid.uuid4()); deliveries[order_id] = DeliveryInfo(...)
ConcCheckoutStore(t) ==
    /\ pc[t] = "co_store"
    /\ LET order_id == Uuid4("o-", UsedIds)
           info     == [order_id |-> order_id, user_id |-> loc[t].user,
                        delivery_address |-> loc[t].arg,
                        delivery_cost |-> loc[t].tmp, status |-> "Processing"]
       IN  /\ deliveries' = Put(deliveries, order_id, info)
           /\ Goto(t, "co_reset", loc[t].cart, info, loc[t].tmp)
    /\ UNCHANGED <<carts, user_addresses, heap>>

\* carts[user_id] = Cart(user_id=user_id)
ConcCheckoutReset(t) ==
    /\ pc[t] = "co_reset"
    /\ CanAlloc(loc[t].user, Live(carts, loc))
    /\ LET u == loc[t].user
           r == NewRef(u, Live(carts, loc))
       IN  /\ carts' = Put(carts, u, r)
           /\ heap' = Collect(Put(heap, r, NewCart(u)), carts', loc)
    /\ Same(t, "co_return")
    /\ UNCHANGED <<user_addresses, deliveries>>

\* return delivery_info
ConcCheckoutReturn(t) ==
    /\ pc[t] = "co_return"
    /\ Finish(t, Reply("checkout", 200, loc[t].arg))

NextConc ==
    \/ /\ started < MaxRequests
       /\ \E t \in Threads, u \in Users, p \in ProductInputs : ConcAddStart(t, u, p)
    \/ \E t \in Threads : ConcAddGet(t)
    \/ \E t \in Threads : ConcAddNew(t)
    \/ \E t \in Threads : ConcAddAppend(t)
    \/ \E t \in Threads : ConcAddReadTotal(t)
    \/ \E t \in Threads : ConcAddWriteTotal(t)
    \/ \E t \in Threads : ConcAddReturn(t)
    \/ /\ started < MaxRequests
       /\ \E t \in Threads, u \in Users, pid \in ConcProductIds : ConcRemoveStart(t, u, pid)
    \/ \E t \in Threads : ConcRemoveGet(t)
    \/ \E t \in Threads : ConcRemoveScan(t)
    \/ \E t \in Threads : ConcRemoveRemove(t)
    \/ \E t \in Threads : ConcRemoveReadTotal(t)
    \/ \E t \in Threads : ConcRemoveWriteTotal(t)
    \/ \E t \in Threads : ConcRemoveReturn(t)
    \/ /\ started < MaxRequests
       /\ \E t \in Threads, u \in Users, a \in ConcAddressInputs : ConcCheckoutStart(t, u, a)
    \/ \E t \in Threads : ConcCheckoutGet(t)
    \/ \E t \in Threads : ConcCheckoutLen(t)
    \/ \E t \in Threads : ConcCheckoutCost(t)
    \/ \E t \in Threads : ConcCheckoutStore(t)
    \/ \E t \in Threads : ConcCheckoutReset(t)
    \/ \E t \in Threads : ConcCheckoutReturn(t)

SpecConc == Init /\ [][NextConc]_vars

(***************************************************************************)
(* Properties of the handlers run one request at a time.                   *)
(***************************************************************************)
\* what a request body becomes once an absent id is filled in: every field
\* the client sent is kept
Parsed(body, obj) ==
    /\ DOMAIN obj = DOMAIN body
    /\ \A f \in DOMAIN body : (f # "id" \/ body.id # NoId) => obj[f] = body[f]
    /\ obj.id # NoId

IsPrefix(s, t) == Len(s) <= Len(t) /\ \A i \in 1..Len(s) : s[i] = t[i]

\* s without its k-th element
Without(s, k) == SubSeq(s, 1, k - 1) \o SubSeq(s, k + 1, Len(s))

\* the other users' carts are the same objects with the same contents
OtherCartsUnchanged(u) ==
    \A v \in Users \ {u} :
        /\ (v \in DOMAIN carts) = (v \in DOMAIN carts')
        /\ v \in DOMAIN carts => CartOf(v)' = CartOf(v)

\* C1: every cart in the Cart Store has total equal to the sum of
\* price*quantity over its items, whatever requests were served
C1_TotalIsSumOfItems ==
    \A u \in DOMAIN carts : CartOf(u).total = SumCost(CartOf(u).items)

\* a cart holds two items with the same client-supplied id after an add
C1_CollidingIdsAdded ==
    /\ resp.op = "add_product"
    /\ \E u \in DOMAIN carts :
          /\ Len(CartOf(u).items) = 2
          /\ CartOf(u).items[1].id = CartOf(u).items[2].id
          /\ CartOf(u).items[1] # CartOf(u).items[2]
          /\ CartOf(u).total = 8

\* C2: a checkout of a cart with items stores, under an order_id that was no
\* key of the Delivery Store, a DeliveryInfo with that user, the given
\* address, status "Processing" and delivery_cost = 5 + the sum of
\* quantity*price over the cart's items, and leaves the user an empty cart
C2_CheckoutStoresOrderAndResetsCart ==
    [][\A u \in Users, a \in AddressInputs :
          (/\ resp'.op = "checkout"
           /\ u \in DOMAIN carts /\ Len(CartOf(u).items) > 0
           /\ Checkout(u, a)) =>
             /\ \E o \in DOMAIN deliveries' \ DOMAIN deliveries :
                   /\ deliveries' = Put(deliveries, o, deliveries'[o])
                   /\ deliveries'[o].order_id = o
                   /\ deliveries'[o].user_id = u
                   /\ Parsed(a, deliveries'[o].delivery_address)
                   /\ deliveries'[o].status = "Processing"
                   /\ deliveries'[o].delivery_cost = 5 + SumCost(CartOf(u).items)
                   /\ resp' = Reply("checkout", 200, deliveries'[o])
             /\ u \in DOMAIN carts'
             /\ CartOf(u)'.items = <<>>
             /\ CartOf(u)'.total = 0
             /\ CartOf(u)'.user_id = u
      ]_vars

\* a cart of two items was checked out: 5 + 2*1 + 3*2
C2_TwoItemsCheckedOut ==
    /\ resp.op = "checkout"
    /\ resp.status = 200
    /\ resp.body.delivery_cost = 13
    /\ resp.body.order_id \in DOMAIN deliveries
    /\ CartOf(resp.body.user_id).items = <<>>

\* C3: a checkout for a user with no cart or with an empty cart answers 400
\* and leaves the three stores as they were
C3_EmptyCheckoutRejected ==
    [][\A u \in Users, a \in AddressInputs :
          (/\ resp'.op = "checkout"
           /\ u \notin DOMAIN carts \/ Len(CartOf(u).items) = 0
           /\ Checkout(u, a)) =>
             /\ resp'.op = "checkout"
             /\ resp'.status = 400
             /\ UNCHANGED stores
      ]_vars

\* a checkout was rejected while one user had an empty cart, another had
\* none and an order was on record
C3_RejectedWithOrdersOnRecord ==
    /\ resp.op = "checkout"
    /\ resp.status = 400
    /\ \E u \in DOMAIN carts : Len(CartOf(u).items) = 0
    /\ \E u \in Users : u \notin DOMAIN carts
    /\ DOMAIN deliveries # {}

\* C4: remove_product answers 404 exactly when the user has no cart or no
\* item of the cart has the requested id, and then it changes no store
C4_RemoveFailsExactlyWhenAbsent ==
    [][\A u \in Users, pid \in ProductIdInputs :
          (resp'.op = "remove_product" /\ RemoveProduct(u, pid)) =>
             /\ resp'.status \in {200, 404}
             /\ (resp'.status = 404) =
                   (\/ u \notin DOMAIN carts
                    \/ \A i \in 1..Len(CartOf(u).items) : CartOf(u).items[i].id # pid)
             /\ resp'.status = 404 => UNCHANGED stores
      ]_vars

\* a removal failed for an id that no item carries while every user had
\* a cart and some cart held items
C4_UnknownIdRejected ==
    /\ resp.op = "remove_product"
    /\ resp.status = 404
    /\ resp.body.detail = "product not found"
    /\ DOMAIN carts = Users
    /\ \E u \in Users : Len(CartOf(u).items) > 0

\* C5: a delivery record, once stored, is never changed or removed; only a
\* successful checkout adds one, and exactly one under a new key;
\* get_delivery_info answers 200 with the stored record for a stored
\* order_id and 404 for any other
C5_DeliveriesWriteOnce ==
    [][/\ \A o \in DOMAIN deliveries :
             o \in DOMAIN deliveries' /\ deliveries'[o] = deliveries[o]
       /\ deliveries' # deliveries =>
             /\ resp'.op = "checkout"
             /\ resp'.status = 200
             /\ Cardinality(DOMAIN deliveries') = Cardinality(DOMAIN deliveries) + 1
             /\ resp'.body.order_id \in DOMAIN deliveries' \ DOMAIN deliveries
       /\ \A u \in Users, a \in AddressInputs :
             (resp'.op = "checkout" /\ resp'.status = 200 /\ Checkout(u, a)) =>
                Cardinality(DOMAIN deliveries') = Cardinality(DOMAIN deliveries) + 1
       /\ \A o \in OrderIdInputs :
             (resp'.op = "delivery_info" /\ GetDeliveryInfo(o)) =>
                /\ (resp'.status = 200) = (o \in DOMAIN deliveries)
                /\ (resp'.status = 404) = (o \notin DOMAIN deliveries)
                /\ o \in DOMAIN deliveries =>
                      resp'.body = deliveries[o] /\ resp'.body.order_id = o
      ]_vars

\* the first order is read back after a second checkout
C5_FirstOrderReadAfterSecond ==
    /\ resp.op = "delivery_info"
    /\ resp.status = 200
    /\ Cardinality(DOMAIN deliveries) = 2
    /\ resp.body.order_id = "o-1"
    /\ resp.body = deliveries["o-1"]

\* C6: an address list only ever grows at its end: add_address appends the
\* given address to that user's list and returns the list, get_addresses
\* returns the stored list, and no other request changes any list
C6_AddressesAppendOnly ==
    [][/\ \A u \in DOMAIN user_addresses :
             u \in DOMAIN user_addresses'
             /\ IsPrefix(user_addresses[u], user_addresses'[u])
       /\ \A u \in Users, a \in AddressInputs :
             (resp'.op = "add_address" /\ AddDeliveryAddress(u, a)) =>
                LET old == IF u \in DOMAIN user_addresses THEN user_addresses[u] ELSE <<>>
                    new == user_addresses'[u]
                IN  /\ Len(new) = Len(old) + 1
                    /\ SubSeq(new, 1, Len(old)) = old
                    /\ Parsed(a, new[Len(new)])
                    /\ resp' = Reply("add_address", 200, [list |-> new])
       /\ \A u \in Users :
             (resp'.op = "get_addresses" /\ GetUserAddresses(u)) =>
                resp'.body.list =
                   IF u \in DOMAIN user_addresses THEN user_addresses[u] ELSE <<>>
       /\ user_addresses' # user_addresses => resp'.op = "add_address"
      ]_vars

\* two different addresses were added for one user and read back in call
\* order
C6_TwoAddressesReadBack ==
    /\ resp.op = "get_addresses"
    /\ Len(resp.body.list) = 2
    /\ resp.body.list[1].country = "Polska"
    /\ resp.body.list[2].country = "Ukraina"
    /\ \E u \in DOMAIN user_addresses : user_addresses[u] = resp.body.list

\* C8: a successful remove_product takes out the first item with the
\* requested id and nothing else: one item fewer, the others in their order,
\* total lower by that item's price*quantity, and adding the item back
\* brings total to what it was
C8_RemoveTakesFirstMatch ==
    [][\A u \in Users, pid \in ProductIdInputs :
          (resp'.op = "remove_product" /\ resp'.status = 200 /\ RemoveProduct(u, pid)) =>
             LET old == CartOf(u)
                 new == CartOf(u)'
                 k   == CHOOSE i \in 1..Len(old.items) :
                           /\ old.items[i].id = pid
                           /\ \A j \in 1..(i - 1) : old.items[j].id # pid
             IN  /\ Len(new.items) = Len(old.items) - 1
                 /\ new.items = Without(old.items, k)
                 /\ new.total = old.total - old.items[k].price * old.items[k].quantity
                 /\ CartAppend(new, old.items[k]).total = old.total
                 /\ resp'.body = new
      ]_vars

\* after a removal the cart holds an item with another id followed by an
\* item with the id "a"
C8_RemovedFromThree ==
    /\ resp.op = "remove_product"
    /\ resp.status = 200
    /\ Len(resp.body.items) = 2
    /\ resp.body.items[1].id # "a"
    /\ resp.body.items[2].name = "ink"
    /\ resp.body = CartOf(resp.body.user_id)

\* the users whose entry in the Cart Store appeared, went away or changed
CartsTouched ==
    {v \in Users :
        \/ (v \in DOMAIN carts) # (v \in DOMAIN carts')
        \/ v \in DOMAIN carts /\ CartOf(v)' # CartOf(v)}

\* the users whose address list appeared, went away or changed
ListsTouched ==
    {v \in Users :
        \/ (v \in DOMAIN user_addresses) # (v \in DOMAIN user_addresses')
        \/ v \in DOMAIN user_addresses /\ user_addresses'[v] # user_addresses[v]}

\* C9: a cart request of user u leaves every other user's cart and the
\* Address Store alone; add_address of user u leaves the Cart Store, the
\* Delivery Store and every other user's list alone; the Delivery Store
\* changes only by a successful checkout adding one key
C9_Isolation ==
    [][/\ resp'.op \in {"get_cart", "add_product", "remove_product", "checkout"} =>
             /\ user_addresses' = user_addresses
             /\ resp'.status = 200 => CartsTouched \subseteq {resp'.body.user_id}
             /\ resp'.status # 200 => CartsTouched = {}
       /\ \A u \in Users :
             (\/ resp'.op = "get_cart" /\ GetCart(u)
              \/ resp'.op = "add_product" /\ \E p \in ProductInputs : AddProduct(u, p)
              \/ resp'.op = "remove_product"
                    /\ \E pid \in ProductIdInputs : RemoveProduct(u, pid)
              \/ resp'.op = "checkout" /\ \E a \in AddressInputs : Checkout(u, a)) =>
                OtherCartsUnchanged(u)
       /\ resp'.op = "add_address" =>
             /\ CartStore' = CartStore
             /\ carts' = carts
             /\ deliveries' = deliveries
       /\ \A u \in Users, a \in AddressInputs :
             (resp'.op = "add_address" /\ AddDeliveryAddress(u, a)) =>
                ListsTouched \subseteq {u}
       /\ deliveries' # deliveries =>
             /\ resp'.op = "checkout" /\ resp'.status = 200
             /\ \E o \in DOMAIN deliveries' \ DOMAIN deliveries :
                   deliveries' = Put(deliveries, o, deliveries'[o])
      ]_vars

\* a product was added for one user while the other user had items in the
\* cart
C9_AddedBesideAnotherCart ==
    /\ resp.op = "add_product"
    /\ \E v \in DOMAIN carts :
          v # resp.body.user_id /\ Len(CartOf(v).items) > 0

\* C10: get_addresses, get_delivery_info, calculate_delivery_cost and
\* check_availability change no store (get_addresses answers an empty list
\* for a user without one and creates no entry); get_cart changes nothing
\* for a user with a cart and returns it, and for a user without one
\* stores exactly one empty cart, so that a second get_cart changes nothing
C10_ReadsDoNotMutate ==
    [][/\ resp'.op \in {"get_addresses", "delivery_info", "calculate", "availability"} =>
             UNCHANGED stores
       /\ \A u \in Users :
             (/\ resp'.op = "get_addresses"
              /\ u \notin DOMAIN user_addresses
              /\ GetUserAddresses(u)) =>
                resp'.body.list = <<>> /\ u \notin DOMAIN user_addresses'
       /\ \A u \in Users :
             (resp'.op = "get_cart" /\ GetCart(u)) =>
                /\ u \in DOMAIN carts =>
                      UNCHANGED stores /\ resp'.body = CartOf(u)
                /\ u \notin DOMAIN carts =>
                      /\ CartStore' = Put(CartStore, u, [user_id |-> u, items |-> <<>>, total |-> 0])
                      /\ resp'.body = CartOf(u)'
                      /\ UNCHANGED <<user_addresses, deliveries>>
                /\ u \in DOMAIN carts'
       /\ (resp.op = "get_cart" /\ resp'.op = "get_cart"
              /\ resp'.body.user_id = resp.body.user_id) => UNCHANGED stores
      ]_vars

\* a user without addresses asked for them while another user had some, and
\* still has no entry
C10_EmptyListWithoutEntry ==
    /\ resp.op = "get_addresses"
    /\ resp.body.list = <<>>
    /\ DOMAIN user_addresses # {}
    /\ DOMAIN user_addresses # Users

(***************************************************************************)
(* Properties of the cart handlers in worker threads (SpecConc).           *)
(***************************************************************************)
\* no request of user u is being handled
Quiet(u) == \A t \in Threads : loc[t].user # u

\* the stored cart of u has a total that is not the sum over its items
TotalOff(u) ==
    /\ u \in DOMAIN carts
    /\ CartOf(u).total # SumCost(CartOf(u).items)

\* thread t is adding to or removing from a Cart object that is not the one
\* stored for its user
Orphaned(t) ==
    /\ loc[t].op \in {"add", "remove"}
    /\ loc[t].cart # NoRef
    /\ CartsGet(loc[t].user) # loc[t].cart

\* C7: requests of one user that overlap can lose an update, and only they
\* can: a stored cart whose total differs from the sum of price * quantity
\* over its items once the user's requests have returned, or a handler that
\* adds to or removes from a Cart object which the Cart Store no longer
\* holds, occurs only for a user two of whose requests were in flight at the
\* same time.  (That such states do occur is C7_LostUpdateToTotal.)
C7_UpdatesLostOnlyByOverlap ==
    /\ \A u \in Users : (Quiet(u) /\ TotalOff(u)) => u \in raced
    /\ \A t \in Threads : Orphaned(t) => loc[t].user \in raced

\* two add_product requests of one user have both returned, both items are
\* in the stored cart, and the total reflects only one of them
C7_LostUpdateToTotal ==
    \E u \in Users :
        /\ AllIdle
        /\ TotalOff(u)
        /\ deliveries = <<>>
        /\ Len(CartOf(u).items) = 2
        /\ CartOf(u).total = 2

\* two add_product requests of one user each constructed a Cart: the second
\* replaced the first in the Cart Store, and the item appended to the first
\* is in no stored cart
DoubleGeneration ==
    \E t \in Threads :
        /\ Orphaned(t)
        /\ loc[t].op = "add"
        /\ deliveries = <<>>
        /\ InFlight("add") = 2
        /\ Len(heap[loc[t].cart].items) = 1
        /\ Len(CartOf(loc[t].user).items) = 0

\* an add_product request appended to the cart a checkout was replacing
LostToCheckout ==
    \E t \in Threads :
        /\ Orphaned(t)
        /\ loc[t].op = "add"
        /\ InFlight("checkout") = 0
        /\ Cardinality(DOMAIN deliveries) = 1
        /\ pc[t] = "add_return"

====
